---- MODULE Spec2Model ----
(***************************************************************************)
(* State-machine model of CkbChainActor (src/src/ckb/actor.rs): the actor  *)
(* that owns the funding exclusion set and the signing key, and serves     *)
(* Fund, Sign, AddTxs, RemoveTx, SendTx, TraceTx and GetCurrentBlockNumber *)
(* messages one at a time from its mailbox.                                *)
(*                                                                         *)
(* A message's payload and reply port are fixed by its sender and are not  *)
(* read by anything until the actor dequeues the message, so the mailbox   *)
(* keeps the kinds in order and the payload is drawn when handle() starts. *)
(* The caller may drop the receiving end of a reply port at any moment:    *)
(* before the message is dequeued (closedOnArrival) or between any two     *)
(* steps of the handler (CallerCloses).                                    *)
(***************************************************************************)
EXTENDS Integers, Sequences, FiniteSets, TLC

\* ------------------------------------------------------------------ bounds

\* Capacity of the mailbox in the model (ractor's mailbox is unbounded).
MaxQueue == 1

\* Longest Vec<FundingTx> an AddTxs message carries in the model.
MaxTxs == 2

\* The counter of RPC calls of one handler saturates here.
RpcCap == 3

\* -------------------------------------------------------------- u64 values

\* A u64 is four 16-bit limbs, most significant first, so that the sum
\* commit_number + confirmations keeps its 64-bit width.
Base == 2^16

U64(n) == <<0, 0, 0, n>>

U64Max == <<Base - 1, Base - 1, Base - 1, Base - 1>>

\* a + b with the carry out of each limb; c[1] is the carry out of bit 63.
AddLimbs(a, b) ==
    LET s4 == a[4] + b[4]
        s3 == a[3] + b[3] + (s4 \div Base)
        s2 == a[2] + b[2] + (s3 \div Base)
        s1 == a[1] + b[1] + (s2 \div Base)
    IN  [sum |-> <<s1 % Base, s2 % Base, s3 % Base, s4 % Base>>,
         carry |-> s1 \div Base]

\* u64 addition as a release build computes it: modulo 2^64.
WrappingAdd(a, b) == AddLimbs(a, b).sum

\* The sum does not fit in 64 bits (a build with overflow checks panics).
Overflows(a, b) == AddLimbs(a, b).carry = 1

\* a >= b on u64 values.
Geq(a, b) ==
    \/ a[1] > b[1]
    \/ a[1] = b[1] /\ a[2] > b[2]
    \/ a[1] = b[1] /\ a[2] = b[2] /\ a[3] > b[3]
    \/ a[1] = b[1] /\ a[2] = b[2] /\ a[3] = b[3] /\ a[4] >= b[4]

\* t >= b + c over the integers (no 64-bit wrap): a sum of 2^64 or more
\* exceeds every u64 tip.
GeqSumExact(t, b, c) == ~Overflows(b, c) /\ Geq(t, WrappingAdd(b, c))

\* ------------------------------------------------------------- value sets

\* Funding identifiers (transaction hashes / inputs) of the model.
Ids == {"a", "b"}

NoId == "-"

\* Vec<FundingTx> payloads, each FundingTx standing for its identifier.
TxLists == UNION {[1..n -> Ids] : n \in 0..MaxTxs}

\* TraceTxRequest.confirmations values of the model.
Confs == {U64(6), U64Max}

\* Block numbers a committed status reports (None: no block number).
NoBlock == <<>>

BlockNumbers == {NoBlock, U64(100)}

\* Tip block numbers the chain reports.
Tips == {U64(99), U64(105), U64(106)}

\* ckb_sdk::RpcError values: the Rpc variant with its error code, and
\* another variant whose payload happens to read like a code.
RpcErrors ==
    {[variant |-> "Rpc", code |-> c] : c \in {-1107, -1111, -1108}}
        \cup {[variant |-> "Http", code |-> -1107]}

Kinds == {"Fund", "Sign", "AddTxs", "RemoveTx", "SendTx", "TraceTx",
          "GetCurrentBlockNumber"}

\* The message kinds that carry an RpcReplyPort.
ReplyKinds == {"Fund", "Sign", "SendTx", "TraceTx", "GetCurrentBlockNumber"}

Ok(v) == [tag |-> "Ok", val |-> v]

Err(e) == [tag |-> "Err", err |-> e]

Some(v) == [tag |-> "Some", val |-> v]

None == [tag |-> "None"]

Unit == "()"

\* No value: a local not yet assigned, a port nothing was delivered to.
Nothing == [tag |-> "-"]

Range(s) == {s[i] : i \in DOMAIN s}

Min(a, b) == IF a < b THEN a ELSE b

\* ------------------------------------------------- external collaborators

\* FundingExclusion::insert: the identifier of the transaction joins the set.
insert(exclusion, tx) == exclusion \cup {tx}

\* FundingExclusion::remove: the identifier leaves the set.
remove(exclusion, tx_hash) == exclusion \ {tx_hash}

\* FundingTx::fulfill(request, context, &mut exclusion), by its contract: it
\* fails and leaves the set alone, or it selects inputs none of which is in
\* the set and registers them.  Each outcome is the result and the set as
\* the call leaves it.
fulfill(exclusion) ==
    {[result |-> Err("FundingError"), exclusion |-> exclusion]}
        \cup {[result |-> Ok(S), exclusion |-> exclusion \cup S] :
                S \in (SUBSET (Ids \ exclusion)) \ {{}}}

\* FundingTx::sign(secret_key, rpc_url), by its contract.
sign == {Ok("signed"), Err("FundingError")}

\* What get_tip_block_number can answer: a JSON Uint64 or an RpcError.
TipAnswers ==
    {Ok([uint64 |-> t]) : t \in Tips}
        \cup {Err(e) : e \in {[variant |-> "Rpc", code |-> -1108],
                              [variant |-> "Http", code |-> -1107]}}

\* What send_transaction can answer: the hash or an RpcError.
SendAnswers == {Ok("hash")} \cup {Err(e) : e \in RpcErrors}

\* The body a status response carries: absent, one that decodes, or one
\* whose get_value() fails.
Bodies == {"absent", "decodable", "undecodable"}

\* What get_only_committed_transaction can answer.
StatusAnswers ==
    {Ok([tx_status |-> [status |-> "Committed", block_number |-> b],
         transaction |-> t]) : b \in BlockNumbers, t \in Bodies}
        \cup {Ok([tx_status |-> [status |-> "Rejected", block_number |-> NoBlock],
                  transaction |-> t]) : t \in {"absent", "decodable"}}
        \cup {Ok([tx_status |-> [status |-> s, block_number |-> NoBlock],
                  transaction |-> "absent"]) : s \in {"Pending", "Proposed", "Unknown"}}
        \cup {Err([variant |-> "Rpc", code |-> -1108])}

\* RpcReplyPort::send on a oneshot port: Err (nothing delivered) when the
\* receiving end is gone, otherwise the value is delivered.
PortSend(closed, v) ==
    IF closed THEN [res |-> "err", delivered |-> Nothing]
    ELSE [res |-> "ok", delivered |-> v]

\* ------------------------------------------------------- pure code pieces

\* Variant of TipValue: a failed query answered as block 0
\* (unwrap_or_default in place of map).
TipValueOrDefault(r) == IF r.tag = "Ok" THEN Ok(r.val.uint64) ELSE Ok(U64(0))

\* get_tip_block_number().map(|x| x.value())
TipValue(r) == IF r.tag = "Ok" THEN Ok(r.val.uint64) ELSE r

\* Variant of SendTxResult: only -1107 is taken for success.
SendTxResultOnly1107(r) ==
    IF r.tag = "Ok" THEN Ok(Unit)
    ELSE IF r.err.variant = "Rpc" /\ r.err.code = -1107
         THEN Ok(Unit)
         ELSE Err(r.err)

\* Variant of SendTxResult: the code is matched whatever the error variant.
SendTxResultAnyVariant(r) ==
    IF r.tag = "Ok" THEN Ok(Unit)
    ELSE IF r.err.code = -1107 \/ r.err.code = -1111
         THEN Ok(Unit)
         ELSE Err(r.err)

\* The match on send_transaction's answer.
SendTxResult(r) ==
    IF r.tag = "Ok" THEN Ok(Unit)
    ELSE IF r.err.variant = "Rpc" /\ (r.err.code = -1107 \/ r.err.code = -1111)
         THEN Ok(Unit)
         ELSE Err(r.err)

\* block_number.unwrap_or_default().into()
CommitNumber(tx_status) ==
    IF tx_status.block_number = NoBlock THEN U64(0) ELSE tx_status.block_number

\* Variant of DecodeBody: a body that fails to decode is passed on as decoded.
DecodeBodyUnchecked(t) == IF t = "absent" THEN None ELSE Some("tx")

\* resp.transaction.map(|x| x.get_value()).transpose(), errors folded to None
DecodeBody(t) == IF t = "decodable" THEN Some("tx") ELSE None

\* TraceTxResponse::new
TraceTxResponse(tx, tx_status) == [tx |-> tx, status |-> tx_status]

\* tip_number >= commit_number + confirmations, the sum as the machine adds.
Confirmed(tip_number, commit_number, confirmations) ==
    Geq(tip_number, WrappingAdd(commit_number, confirmations))

\* Variant of TraceStatus: the Rejected arm passes the decoded body on.
TraceStatusRejectedWithBody(resp, tip, confirmations) ==
    IF resp.tag = "Err" THEN None
    ELSE IF resp.val.tx_status.status = "Committed"
         THEN IF tip.tag = "Ok"
              THEN IF Confirmed(tip.val.uint64, CommitNumber(resp.val.tx_status),
                                confirmations)
                   THEN Some(TraceTxResponse(DecodeBody(resp.val.transaction),
                                             resp.val.tx_status))
                   ELSE None
              ELSE None
         ELSE IF resp.val.tx_status.status = "Rejected"
              THEN Some(TraceTxResponse(DecodeBody(resp.val.transaction),
                                        resp.val.tx_status))
              ELSE None

\* Variant of TraceStatus: the Unknown status ends the trace like Rejected.
TraceStatusUnknownIsFinal(resp, tip, confirmations) ==
    IF resp.tag = "Err" THEN None
    ELSE IF resp.val.tx_status.status = "Committed"
         THEN IF tip.tag = "Ok"
              THEN IF Confirmed(tip.val.uint64, CommitNumber(resp.val.tx_status),
                                confirmations)
                   THEN Some(TraceTxResponse(DecodeBody(resp.val.transaction),
                                             resp.val.tx_status))
                   ELSE None
              ELSE None
         ELSE IF resp.val.tx_status.status \in {"Rejected", "Unknown"}
              THEN Some(TraceTxResponse(None, resp.val.tx_status))
              ELSE None

\* Variant of TraceStatus: a committed status without a block number is
\* polled again.
TraceStatusNeedsBlockNumber(resp, tip, confirmations) ==
    IF resp.tag = "Err" THEN None
    ELSE IF resp.val.tx_status.status = "Committed"
         THEN IF tip.tag = "Ok" /\ resp.val.tx_status.block_number # NoBlock
              THEN IF Confirmed(tip.val.uint64, CommitNumber(resp.val.tx_status),
                                confirmations)
                   THEN Some(TraceTxResponse(DecodeBody(resp.val.transaction),
                                             resp.val.tx_status))
                   ELSE None
              ELSE None
         ELSE IF resp.val.tx_status.status = "Rejected"
              THEN Some(TraceTxResponse(None, resp.val.tx_status))
              ELSE None

\* The value of the block_in_place closure of TraceTx: Some(response) on a
\* terminal status, None to poll again.  tip is Nothing when the tip was not
\* asked for.
TraceStatus(resp, tip, confirmations) ==
    IF resp.tag = "Err" THEN None
    ELSE IF resp.val.tx_status.status = "Committed"
         THEN IF tip.tag = "Ok"
              THEN IF Confirmed(tip.val.uint64, CommitNumber(resp.val.tx_status),
                                confirmations)
                   THEN Some(TraceTxResponse(DecodeBody(resp.val.transaction),
                                             resp.val.tx_status))
                   ELSE None
              ELSE None
         ELSE IF resp.val.tx_status.status = "Rejected"
              THEN Some(TraceTxResponse(None, resp.val.tx_status))
              ELSE None

\* The tip is asked for only in the Committed arm.
AsksTip(resp) == resp.tag = "Ok" /\ resp.val.tx_status.status = "Committed"

\* The checked sum panics: commit_number + confirmations does not fit.
SumPanics(resp, tip, confirmations) ==
    /\ AsksTip(resp)
    /\ tip.tag = "Ok"
    /\ Overflows(CommitNumber(resp.val.tx_status), confirmations)

\* ------------------------------------------------------------------ state

VARIABLES
    mailbox,            \* kinds of the queued messages, oldest first
    pc,                 \* where handle() is: "idle" between two messages
    cur,                \* the message handle() is working on
    portClosed,         \* reply_port.is_closed() of the message in flight
    funding_exclusion,  \* state.funding_exclusion
    config,             \* state.config
    secret_key,         \* state.secret_key
    funding_source_lock_script,  \* state.funding_source_lock_script
    chainSettled,       \* the chain answers every later poll with a final status
    result,             \* the local `result` (TraceTx: `status`)
    obs,                \* what the chain answered to this handler's RPCs
    reply,              \* what the caller received on the reply port
    sendRes,            \* "none", or how the call of send() ended
    sends,              \* calls of send() by this handler (saturating at 2)
    checked,            \* an is_closed() test of this handler found the port open
    rpcCalls,           \* RPC calls made by this handler (saturating)
    closedOnArrival,    \* history: the port was closed when handle() began
    closedQueries,      \* history: status queries begun with the port closed
    exclBefore,         \* history: the exclusion set when handle() began
    held,               \* history: inputs of successful fulfills not removed since
    prevAdd             \* history: x when the previous message was AddTxs([x])

vars == <<mailbox, pc, cur, portClosed, funding_exclusion, config, secret_key,
          funding_source_lock_script, chainSettled, result, obs, reply,
          sendRes, sends, checked, rpcCalls, closedOnArrival, closedQueries,
          exclBefore, held, prevAdd>>

NoMsg == [kind |-> "-", txs |-> <<>>, tx_hash |-> NoId, confirmations |-> U64(0)]

NoObs == [resp |-> Nothing, tip |-> Nothing]

\* The messages of one kind (CkbChainMessage), the reply port apart.
Messages(kind) ==
    CASE kind = "AddTxs" -> {[NoMsg EXCEPT !.kind = kind, !.txs = l] : l \in TxLists}
      [] kind = "RemoveTx" -> {[NoMsg EXCEPT !.kind = kind, !.tx_hash = h] : h \in Ids}
      [] kind = "TraceTx" ->
            {[NoMsg EXCEPT !.kind = kind, !.tx_hash = h, !.confirmations = c] :
                h \in {"a"}, c \in Confs}
      [] OTHER -> {[NoMsg EXCEPT !.kind = kind]}

\* The first statement of each arm of the match in handle().
Entry(kind) ==
    CASE kind = "GetCurrentBlockNumber" -> "get_tip"
      [] kind = "Fund" -> "fund"
      [] kind = "Sign" -> "sign"
      [] kind = "AddTxs" -> "add_txs"
      [] kind = "RemoveTx" -> "remove_tx"
      [] kind = "SendTx" -> "send_tx"
      [] kind = "TraceTx" -> "trace_loop"

\* The configuration the actor is started with.
CkbConfig == [rpc_url |-> "rpc_url", key_file |-> "key"]

\* config.read_secret_key()
read_secret_key(cfg) == <<"secret_key", cfg.key_file>>

\* get_script_by_contract(Secp256k1Lock, blake2b_256(pub_key)[0..20])
LockScriptOf(key) == <<"secp256k1_lock", key>>

\* pre_start: the key is read, the lock script derived from it, and the
\* exclusion set starts empty; nothing is queued or in flight.
Init ==
    /\ mailbox = <<>>
    /\ pc = "idle"
    /\ cur = NoMsg
    /\ portClosed = FALSE
    /\ funding_exclusion = {}
    /\ config = CkbConfig
    /\ secret_key = read_secret_key(CkbConfig)
    /\ funding_source_lock_script = LockScriptOf(read_secret_key(CkbConfig))
    /\ chainSettled = FALSE
    /\ result = Nothing
    /\ obs = NoObs
    /\ reply = Nothing
    /\ sendRes = "none"
    /\ sends = 0
    /\ checked = FALSE
    /\ rpcCalls = 0
    /\ closedOnArrival = FALSE
    /\ closedQueries = 0
    /\ exclBefore = {}
    /\ held = {}
    /\ prevAdd = NoId

locals == <<result, obs, reply, sendRes, sends, checked, rpcCalls>>

\* The fields of CkbChainState no arm of handle() assigns.
owned == <<config, secret_key, funding_source_lock_script>>

history == <<closedOnArrival, closedQueries, exclBefore, held, prevAdd>>

\* ------------------------------------------------------------ environment

\* A caller casts or calls the actor: the message joins the mailbox.
Send(kind) ==
    /\ pc \notin {"panicked", "failed"}
    /\ Len(mailbox) < MaxQueue
    /\ mailbox' = Append(mailbox, kind)
    /\ UNCHANGED <<pc, cur, portClosed, funding_exclusion, locals, history,
                   owned, chainSettled>>

\* The caller of the message in flight drops the receiving end of its port.
CallerCloses ==
    /\ pc \notin {"idle", "ret", "panicked", "failed"}
    /\ cur.kind \in ReplyKinds
    /\ ~portClosed
    /\ sendRes = "none"
    /\ portClosed' = TRUE
    /\ UNCHANGED <<mailbox, pc, cur, funding_exclusion, locals, history,
                   owned, chainSettled>>

\* ----------------------------------------------------------------- handle

\* Variant of CanStart: the next message is taken while a trace sleeps.
CanStartWhileSleeping(at) == at \in {"idle", "trace_sleep"}

\* handle() is awaited to its end before the next message is taken: the
\* actor takes a message only between two calls of handle().
CanStart(at) == at = "idle"

\* The actor takes the oldest message and enters handle() with it.
Start ==
    /\ CanStart(pc)
    /\ mailbox # <<>>
    /\ \E m \in Messages(Head(mailbox)),
          c \in (IF Head(mailbox) \in ReplyKinds THEN BOOLEAN ELSE {FALSE}) :
            /\ cur' = m
            /\ portClosed' = c
            /\ closedOnArrival' = c
    /\ mailbox' = Tail(mailbox)
    /\ pc' = Entry(Head(mailbox))
    /\ exclBefore' = funding_exclusion
    /\ UNCHANGED <<funding_exclusion, locals, closedQueries, held, prevAdd,
                   owned, chainSettled>>

\* Variant of InsertAll: the set is replaced by the identifiers of the list.
InsertAllReplacing(exclusion, txs) == Range(txs)

\* for tx in txs { state.funding_exclusion.insert(tx) }
RECURSIVE InsertAll(_, _)
InsertAll(exclusion, txs) ==
    IF txs = <<>> THEN exclusion
    ELSE InsertAll(insert(exclusion, Head(txs)), Tail(txs))

AddTxs ==
    /\ pc = "add_txs"
    /\ funding_exclusion' = InsertAll(funding_exclusion, cur.txs)
    /\ pc' = "ret"
    /\ UNCHANGED <<mailbox, cur, portClosed, locals, history,
                   owned, chainSettled>>

\* Variant of RemoveFrom: nothing is removed.
RemoveNothing(exclusion, tx_hash) == exclusion

\* state.funding_exclusion.remove(&tx_hash)
RemoveFrom(exclusion, tx_hash) == remove(exclusion, tx_hash)

RemoveTx ==
    /\ pc = "remove_tx"
    /\ funding_exclusion' = RemoveFrom(funding_exclusion, cur.tx_hash)
    /\ pc' = "ret"
    /\ UNCHANGED <<mailbox, cur, portClosed, locals, history,
                   owned, chainSettled>>

\* Variant of FundProceeds: fulfill is called whatever the port's state.
FundAlwaysProceeds(closed) == TRUE

\* Fund: `if !reply_port.is_closed()` around the call of fulfill.
FundProceeds(closed) == ~closed

\* Fund: build_funding_context, then `if !reply_port.is_closed()`.
FundCheck ==
    /\ pc = "fund"
    /\ pc' = IF FundProceeds(portClosed) THEN "fulfill" ELSE "ret"
    /\ UNCHANGED <<mailbox, cur, portClosed, funding_exclusion, locals, history,
                   owned, chainSettled>>

\* Variant of ExclusionAfterFulfill: fulfill works on a clone of the set.
ExclusionCloned(before, after) == before

\* fulfill is handed &mut state.funding_exclusion: the set as fulfill leaves
\* it is the actor's set from then on.
ExclusionAfterFulfill(before, after) == after

\* Fund: tx.fulfill(request, context, &mut state.funding_exclusion)
Fulfill ==
    /\ pc = "fulfill"
    /\ \E o \in fulfill(funding_exclusion) :
        /\ result' = o.result
        /\ funding_exclusion' = ExclusionAfterFulfill(funding_exclusion, o.exclusion)
    /\ pc' = "reply_check"
    /\ UNCHANGED <<mailbox, cur, portClosed, obs, reply, sendRes, sends, checked,
                   rpcCalls, history,
                   owned, chainSettled>>

\* Sign: `if !reply_port.is_closed()`, before the key is copied.
SignCheck ==
    /\ pc = "sign"
    /\ pc' = IF portClosed THEN "ret" ELSE "sign_call"
    /\ UNCHANGED <<mailbox, cur, portClosed, funding_exclusion, locals, history,
                   owned, chainSettled>>

\* Variant of Sign: a signed transaction is registered in the exclusion set.
SignRegistering ==
    /\ pc = "sign_call"
    /\ \E r \in sign :
        /\ result' = r
        /\ funding_exclusion' =
                IF r.tag = "Ok" THEN insert(funding_exclusion, "a") ELSE funding_exclusion
    /\ pc' = "reply_check"
    /\ UNCHANGED <<mailbox, cur, portClosed, obs, reply,
                   sendRes, sends, checked, rpcCalls, history,
                   owned, chainSettled>>

\* Sign: tx.sign(secret_key, rpc_url)
Sign ==
    /\ pc = "sign_call"
    /\ \E r \in sign : result' = r
    /\ pc' = "reply_check"
    /\ UNCHANGED <<mailbox, cur, portClosed, funding_exclusion, obs, reply,
                   sendRes, sends, checked, rpcCalls, history,
                   owned, chainSettled>>

\* SendTx: send_transaction and the match on its answer.
SendTx ==
    /\ pc = "send_tx"
    /\ \E r \in SendAnswers :
        /\ obs' = [NoObs EXCEPT !.resp = r]
        /\ result' = SendTxResult(r)
    /\ rpcCalls' = Min(rpcCalls + 1, RpcCap)
    /\ pc' = "reply_check"
    /\ UNCHANGED <<mailbox, cur, portClosed, funding_exclusion, reply, sendRes, sends,
                   checked, history,
                   owned, chainSettled>>

\* GetCurrentBlockNumber: get_tip_block_number; the send follows with no test.
GetCurrentBlockNumber ==
    /\ pc = "get_tip"
    /\ \E r \in TipAnswers :
        /\ obs' = [NoObs EXCEPT !.tip = r]
        /\ result' = TipValue(r)
    /\ rpcCalls' = Min(rpcCalls + 1, RpcCap)
    /\ pc' = "reply_send"
    /\ UNCHANGED <<mailbox, cur, portClosed, funding_exclusion, reply, sendRes, sends,
                   checked, history,
                   owned, chainSettled>>

\* Fund, Sign, SendTx: `if !reply_port.is_closed()` in front of the send.
ReplyCheck ==
    /\ pc = "reply_check"
    /\ IF portClosed
       THEN pc' = "ret" /\ UNCHANGED checked
       ELSE pc' = "reply_send" /\ checked' = TRUE
    /\ UNCHANGED <<mailbox, cur, portClosed, funding_exclusion, result, obs,
                   reply, sendRes, sends, rpcCalls, history,
                   owned, chainSettled>>

\* Fund, Sign, SendTx, GetCurrentBlockNumber: `let _ = reply_port.send(result)`
ReplySend ==
    /\ pc = "reply_send"
    /\ LET s == PortSend(portClosed, result)
       IN  sendRes' = s.res /\ reply' = s.delivered
    /\ sends' = Min(sends + 1, 2)
    /\ pc' = "ret"
    /\ UNCHANGED <<mailbox, cur, portClosed, funding_exclusion, result, obs,
                   checked, rpcCalls, history,
                   owned, chainSettled>>

\* Variant of LoopContinues: `loop` with no test of the port.
LoopForever(closed) == TRUE

\* TraceTx: `while !reply_port.is_closed()`; a closed port ends the loop.
LoopContinues(closed) == ~closed

TraceLoop ==
    /\ pc = "trace_loop"
    /\ pc' = IF LoopContinues(portClosed) THEN "trace_poll" ELSE "ret"
    /\ UNCHANGED <<mailbox, cur, portClosed, funding_exclusion, locals, history,
                   owned, chainSettled>>

\* An answer of a chain that has settled on the traced transaction: rejected,
\* or committed at a block B with a tip T >= B + confirmations.
SettledAnswer(resp, tip, confirmations) ==
    /\ resp.tag = "Ok"
    /\ \/ resp.val.tx_status.status = "Rejected"
       \/ /\ resp.val.tx_status.status = "Committed"
          /\ tip.tag = "Ok"
          /\ GeqSumExact(tip.val.uint64, CommitNumber(resp.val.tx_status),
                         confirmations)

\* TraceTx: the block_in_place closure: the status query and, for a committed
\* transaction, the tip query.  A build with overflow checks panics on a sum
\* that does not fit; a build without them wraps.
TracePoll ==
    /\ pc = "trace_poll"
    /\ \E resp \in StatusAnswers, tipAnswer \in TipAnswers, overflow_checks \in BOOLEAN :
        LET tip == IF AsksTip(resp) THEN tipAnswer ELSE Nothing
        IN  /\ chainSettled => SettledAnswer(resp, tip, cur.confirmations)
            /\ obs' = [resp |-> resp, tip |-> tip]
            /\ rpcCalls' = Min(rpcCalls + (IF AsksTip(resp) THEN 2 ELSE 1), RpcCap)
            /\ IF overflow_checks /\ SumPanics(resp, tip, cur.confirmations)
               THEN pc' = "panicked" /\ UNCHANGED result
               ELSE /\ result' = TraceStatus(resp, tip, cur.confirmations)
                    /\ pc' = IF result' = None THEN "trace_sleep" ELSE "trace_reply"
    /\ closedQueries' = Min(closedQueries + (IF portClosed THEN 1 ELSE 0), 2)
    /\ UNCHANGED <<mailbox, cur, portClosed, funding_exclusion, reply, sendRes, sends,
                   checked, closedOnArrival, exclBefore, held, prevAdd,
                   owned, chainSettled>>

\* Variant of AfterSleep: the trace gives up after one fruitless poll.
AfterSleepGivesUp == "ret"

\* Where the None arm leads once the sleep is over: back to the loop test.
AfterSleep == "trace_loop"

\* TraceTx: None => sleep(Duration::from_secs(5)).await, then the loop test.
TraceSleep ==
    /\ pc = "trace_sleep"
    /\ pc' = AfterSleep
    /\ result' = Nothing
    /\ obs' = NoObs
    /\ UNCHANGED <<mailbox, cur, portClosed, funding_exclusion, reply, sendRes, sends,
                   checked, rpcCalls, history,
                   owned, chainSettled>>

\* TraceTx: Some(status) => `if !reply_port.is_closed()`
TraceReplyCheck ==
    /\ pc = "trace_reply"
    /\ IF portClosed
       THEN pc' = "ret" /\ UNCHANGED checked
       ELSE pc' = "trace_send" /\ checked' = TRUE
    /\ UNCHANGED <<mailbox, cur, portClosed, funding_exclusion, result, obs,
                   reply, sendRes, sends, rpcCalls, history,
                   owned, chainSettled>>

\* Variant of AfterTraceSend: no return after the send, the loop goes on.
AfterTraceSendPollsOn == "trace_sleep"

\* Where the Some arm leads after the send: `return Ok(())`.
AfterTraceSend == "ret"

\* TraceTx: `let _ = reply_port.send(status)`, then return Ok(())
TraceSend ==
    /\ pc = "trace_send"
    /\ LET s == PortSend(portClosed, result.val)
       IN  sendRes' = s.res /\ reply' = s.delivered
    /\ sends' = Min(sends + 1, 2)
    /\ pc' = AfterTraceSend
    /\ UNCHANGED <<mailbox, cur, portClosed, funding_exclusion, result, obs,
                   checked, rpcCalls, history,
                   owned, chainSettled>>

\* Variant of HandlerResult: the outcome of send is propagated with `?`.
HandlerResultPropagating(send_outcome) ==
    IF send_outcome = "err" THEN "Err" ELSE "Ok"

\* What handle() returns: every arm drops the outcome of send (`let _ =`) and
\* ends in Ok(()).
HandlerResult(send_outcome) == "Ok"

\* handle() returns; on Ok the actor is ready for the next message.
Return ==
    /\ pc = "ret"
    /\ IF HandlerResult(sendRes) = "Ok"
       THEN /\ pc' = "idle"
            /\ cur' = NoMsg
            /\ portClosed' = FALSE
            /\ result' = Nothing
            /\ obs' = NoObs
            /\ reply' = Nothing
            /\ sendRes' = "none"
            /\ sends' = 0
            /\ checked' = FALSE
            /\ rpcCalls' = 0
            /\ closedOnArrival' = FALSE
            /\ closedQueries' = 0
            /\ exclBefore' = {}
            /\ held' = CASE cur.kind = "Fund" /\ result.tag = "Ok" -> held \cup result.val
                         [] cur.kind = "RemoveTx" -> held \ {cur.tx_hash}
                         [] OTHER -> held
            /\ prevAdd' = IF cur.kind = "AddTxs" /\ Len(cur.txs) = 1
                          THEN cur.txs[1] ELSE NoId
       ELSE /\ pc' = "failed"
            /\ UNCHANGED <<cur, portClosed, locals, history>>
    /\ UNCHANGED <<mailbox, funding_exclusion,
                   owned, chainSettled>>

Next ==
    \/ \E kind \in Kinds : Send(kind)
    \/ CallerCloses
    \/ Start
    \/ GetCurrentBlockNumber
    \/ FundCheck
    \/ Fulfill
    \/ SignCheck
    \/ Sign
    \/ AddTxs
    \/ RemoveTx
    \/ SendTx
    \/ ReplyCheck
    \/ ReplySend
    \/ TraceLoop
    \/ TracePoll
    \/ TraceSleep
    \/ TraceReplyCheck
    \/ TraceSend
    \/ Return

Spec == Init /\ [][Next]_vars

\* ------------------------------------------------ the tracer under fairness

\* From now on the chain answers every poll with a final status.
Settle ==
    /\ ~chainSettled
    /\ chainSettled' = TRUE
    /\ UNCHANGED <<mailbox, pc, cur, portClosed, funding_exclusion, locals,
                   history, owned>>

\* The steps of the actor's task on a TraceTx.
TraceStep ==
    \/ Start
    \/ TraceLoop
    \/ TracePoll
    \/ TraceSleep
    \/ TraceReplyCheck
    \/ TraceSend
    \/ Return

NextTrace ==
    \/ Send("TraceTx")
    \/ CallerCloses
    \/ Settle
    \/ TraceStep

\* Callers send TraceTx messages only; the runtime keeps running the actor's
\* task: an RPC call returns, a sleep ends, a ready message is taken.
TraceSpec == Init /\ [][NextTrace]_vars /\ WF_vars(TraceStep)

\* ----------------------------------------------------------------- claims

\* The Fund in flight has come back from fulfill with a funded transaction.
FundSucceeded ==
    /\ cur.kind = "Fund"
    /\ pc \in {"reply_check", "reply_send", "ret"}
    /\ result.tag = "Ok"

\* C1: what one Fund's fulfill did to the exclusion set is what every later
\* message finds: between two messages the set holds every input a
\* successful Fund selected and no RemoveTx released since, and a
\* successful Fund selects none of those inputs and has its own in the set.
C1_FundsNeverShareAnInput ==
    /\ pc = "idle" => held \subseteq funding_exclusion
    /\ FundSucceeded =>
        /\ result.val \cap held = {}
        /\ result.val \subseteq funding_exclusion

\* A second Fund succeeds while the inputs of an earlier one are still held.
C1_Witness == FundSucceeded /\ pc = "ret" /\ held # {}

\* The poll in flight found the transaction committed and got the tip.
CommittedPoll ==
    /\ cur.kind = "TraceTx"
    /\ obs.resp.tag = "Ok"
    /\ obs.resp.val.tx_status.status = "Committed"
    /\ obs.tip.tag = "Ok"

\* C2: a poll that finds the transaction committed at block B with tip T
\* and required confirmations C ends the trace with a response iff
\* T >= B + C; otherwise it sends nothing and sleeps before the next poll.
C2_ConfirmedIffDeepEnough ==
    CommittedPoll =>
        IF GeqSumExact(obs.tip.val.uint64, CommitNumber(obs.resp.val.tx_status),
                       cur.confirmations)
        THEN /\ pc \in {"trace_reply", "trace_send", "ret"}
             /\ result.tag = "Some"
        ELSE /\ pc = "trace_sleep"
             /\ result = None
             /\ sendRes = "none"

\* C3: once the caller has closed the reply port of a TraceTx, the tracer
\* begins at most one more status query and nothing is delivered on the
\* port; a TraceTx whose port is closed on arrival makes no RPC call and
\* no send.
C3_CancelledTraceHalts ==
    cur.kind = "TraceTx" =>
        /\ closedQueries <= 1
        /\ portClosed => reply = Nothing
        /\ closedOnArrival => rpcCalls = 0 /\ sendRes = "none"

\* A trace cancelled while polling has left its loop after one more query.
C3_Witness ==
    /\ cur.kind = "TraceTx"
    /\ pc = "ret"
    /\ portClosed
    /\ ~closedOnArrival
    /\ closedQueries = 1
    /\ sendRes = "none"

\* send_transaction failed with the Rpc variant and code -1107 or -1111.
AlreadyInPool ==
    /\ cur.kind = "SendTx"
    /\ obs.resp.tag = "Err"
    /\ obs.resp.err.variant = "Rpc"
    /\ obs.resp.err.code \in {-1107, -1111}

\* C4: a SendTx whose submission fails with RPC error code -1107 or -1111
\* has the result Ok(()), and nothing else is ever delivered to its caller.
C4_DuplicateCodesAreSuccess ==
    AlreadyInPool =>
        /\ result = Ok(Unit)
        /\ reply \in {Nothing, Ok(Unit)}
        /\ sendRes = "ok" => reply = Ok(Unit)

\* The caller of a submission that failed with -1111 has received Ok(()).
C4_Witness == AlreadyInPool /\ obs.resp.err.code = -1111 /\ reply = Ok(Unit)

\* send_transaction failed with anything but Rpc(-1107) or Rpc(-1111).
OtherSendFailure ==
    /\ cur.kind = "SendTx"
    /\ obs.resp.tag = "Err"
    /\ ~(obs.resp.err.variant = "Rpc" /\ obs.resp.err.code \in {-1107, -1111})

\* C5: a SendTx whose submission fails with any other error has that very
\* error as its result, and its caller receives that error or nothing.
C5_OtherErrorsSurfaceVerbatim ==
    OtherSendFailure =>
        /\ result = Err(obs.resp.err)
        /\ reply \in {Nothing, Err(obs.resp.err)}
        /\ sendRes = "ok" => reply = Err(obs.resp.err)

\* A non-Rpc error whose payload reads -1107 has reached the caller as it is.
C5_Witness ==
    /\ OtherSendFailure
    /\ obs.resp.err.variant # "Rpc"
    /\ reply = Err(obs.resp.err)

\* The poll in flight found the transaction rejected.
RejectedPoll ==
    /\ cur.kind = "TraceTx"
    /\ obs.resp.tag = "Ok"
    /\ obs.resp.val.tx_status.status = "Rejected"

\* C6: a poll that finds the transaction rejected ends the trace at once
\* with a response of no transaction and the rejected status, whatever the
\* required confirmations, and the tip is not asked for.
C6_RejectedIsTerminalWithoutBody ==
    RejectedPoll =>
        /\ obs.tip = Nothing
        /\ pc \in {"trace_reply", "trace_send", "ret"}
        /\ result = Some([tx |-> None, status |-> obs.resp.val.tx_status])
        /\ sendRes = "ok" => reply = [tx |-> None, status |-> obs.resp.val.tx_status]

\* A rejected status that came with a body, traced with the largest depth,
\* has reached the caller without the body.
C6_Witness ==
    /\ RejectedPoll
    /\ obs.resp.val.transaction = "decodable"
    /\ cur.confirmations = U64Max
    /\ sendRes = "ok"
    /\ reply.tx = None

\* C7: when RemoveTx(x) is handled right after AddTxs([x]), the exclusion
\* set does not contain x afterwards, whatever it held before.
C7_AddThenRemoveLeavesOut ==
    (pc = "ret" /\ cur.kind = "RemoveTx" /\ prevAdd = cur.tx_hash)
        => cur.tx_hash \notin funding_exclusion

\* RemoveTx(x) has followed AddTxs([x]) and the set keeps another identifier.
C7_Witness ==
    /\ pc = "ret"
    /\ cur.kind = "RemoveTx"
    /\ prevAdd = cur.tx_hash
    /\ exclBefore = Ids
    /\ funding_exclusion # {}

\* C8: AddTxs with identifiers already in the set leaves it as it was (a
\* second AddTxs([x]) included), AddTxs([x, x]) leaves what adding x once
\* leaves, RemoveTx of an absent identifier leaves the set as it was, and
\* neither handler fails.
C8_AddAndRemoveAreIdempotent ==
    /\ (pc = "ret" /\ cur.kind = "AddTxs" /\ Range(cur.txs) \subseteq exclBefore)
            => funding_exclusion = exclBefore
    /\ (pc = "ret" /\ cur.kind = "AddTxs" /\ Len(cur.txs) = 2 /\ cur.txs[1] = cur.txs[2])
            => funding_exclusion = exclBefore \cup {cur.txs[1]}
    /\ (pc = "ret" /\ cur.kind = "RemoveTx" /\ cur.tx_hash \notin exclBefore)
            => funding_exclusion = exclBefore
    /\ cur.kind \in {"AddTxs", "RemoveTx"} =>
            /\ pc \notin {"failed", "panicked"}
            /\ pc = "ret" => HandlerResult(sendRes) = "Ok"

\* AddTxs([x]) has been handled right after another AddTxs([x]).
C8_Witness ==
    /\ pc = "ret"
    /\ cur.kind = "AddTxs"
    /\ cur.txs = <<prevAdd>>
    /\ exclBefore = Ids

\* C9: GetCurrentBlockNumber makes one RPC call, and its result, which is
\* all its caller can receive, is the tip number the adapter reported or
\* the adapter's error as it is.
C9_TipIsForwarded ==
    (cur.kind = "GetCurrentBlockNumber" /\ pc \in {"reply_send", "ret"}) =>
        LET expected == IF obs.tip.tag = "Ok" THEN Ok(obs.tip.val.uint64) ELSE obs.tip
        IN  /\ rpcCalls = 1
            /\ result = expected
            /\ reply \in {Nothing, expected}
            /\ sendRes = "ok" => reply = expected

\* The caller has received the adapter's error.
C9_Witness ==
    /\ cur.kind = "GetCurrentBlockNumber"
    /\ obs.tip.tag = "Err"
    /\ reply = obs.tip

\* C10 as stated: every send on a reply port follows a test that found the
\* port open, and no handler fails.
C10_EverySendIsChecked ==
    /\ sendRes # "none" => checked
    /\ pc # "failed"
    /\ pc = "ret" => HandlerResult(sendRes) = "Ok"

\* C10, amended: every send of Fund, Sign, SendTx and TraceTx follows a test
\* that found the port open, GetCurrentBlockNumber sends with no test, and
\* for all five a port closed before or during handling never makes the
\* handler fail: it returns Ok and the actor takes the next message.
C10_ClosedPortNeverFails ==
    /\ (sendRes # "none" /\ cur.kind # "GetCurrentBlockNumber") => checked
    /\ (sendRes # "none" /\ cur.kind = "GetCurrentBlockNumber") => ~checked
    /\ pc # "failed"
    /\ pc = "ret" => HandlerResult(sendRes) = "Ok"

\* A send on a port the caller closed after the test has been swallowed.
C10_Witness ==
    /\ cur.kind \in {"Fund", "Sign", "SendTx", "TraceTx"}
    /\ checked
    /\ sendRes = "err"
    /\ pc = "ret"

\* The positions of handle() inside the TraceTx arm.
TracePcs == {"trace_loop", "trace_poll", "trace_sleep", "trace_reply", "trace_send"}

TraceEnded == cur.kind = "TraceTx" /\ pc = "ret" /\ result.tag = "Some"

\* C12 as stated: no handler calls send more than once, and a TraceTx that
\* has reached a terminal status has sent its response exactly once.
C12_TraceSendsExactlyOnce ==
    /\ sends <= 1
    /\ TraceEnded => sends = 1

\* C12, amended: no handler calls send more than once; a TraceTx calls it
\* only on a terminal status and returns right after; on a terminal status
\* it sends its response exactly once if the port is still open, and not at
\* all if the caller has closed it.
C12_AtMostOneReply ==
    /\ sends <= 1
    /\ (sends = 0) <=> (sendRes = "none")
    /\ (cur.kind = "TraceTx" /\ result.tag = "Some") =>
            pc \in {"trace_reply", "trace_send", "ret"}
    /\ (cur.kind = "TraceTx" /\ sends = 1) => TraceEnded
    /\ (TraceEnded /\ ~portClosed) => (sends = 1 /\ reply = result.val)
    /\ (TraceEnded /\ sends = 0) => portClosed

\* A trace has delivered its terminal response with its one send.
C12_Witness == TraceEnded /\ sends = 1 /\ sendRes = "ok" /\ reply = result.val

\* C13: a poll that finds the transaction committed deep enough, with a
\* body that is absent or fails to decode, ends the trace with a response
\* of no transaction and the chain's status as it came.
C13_UndecodableBodyStillConfirms ==
    (/\ CommittedPoll
     /\ GeqSumExact(obs.tip.val.uint64, CommitNumber(obs.resp.val.tx_status),
                    cur.confirmations)
     /\ obs.resp.val.transaction \in {"absent", "undecodable"}) =>
        /\ pc \in {"trace_reply", "trace_send", "ret"}
        /\ result = Some([tx |-> None, status |-> obs.resp.val.tx_status])
        /\ sendRes = "ok" => reply = [tx |-> None, status |-> obs.resp.val.tx_status]

\* The caller has a Confirmed response without the body that did not decode.
C13_Witness ==
    /\ CommittedPoll
    /\ obs.resp.val.transaction = "undecodable"
    /\ sendRes = "ok"
    /\ reply.tx = None
    /\ reply.status.status = "Committed"

\* The poll in flight failed, or found a committed transaction and failed
\* to get the tip, or found a status that is neither Committed nor Rejected.
NonTerminalPoll ==
    /\ cur.kind = "TraceTx"
    /\ obs.resp # Nothing
    /\ \/ obs.resp.tag = "Err"
       \/ /\ obs.resp.tag = "Ok"
          /\ obs.resp.val.tx_status.status = "Committed"
          /\ obs.tip.tag = "Err"
       \/ /\ obs.resp.tag = "Ok"
          /\ obs.resp.val.tx_status.status \in {"Pending", "Proposed", "Unknown"}

\* C14: such a poll is never terminal: its value is None, nothing is sent
\* or delivered, and the handler is in the sleep that leads back to the
\* loop test.
C14_TransientPollsRetry ==
    NonTerminalPoll =>
        /\ pc = "trace_sleep"
        /\ AfterSleep = "trace_loop"
        /\ result = None
        /\ sends = 0
        /\ reply = Nothing

\* A committed transaction whose tip query failed is being polled again.
C14_Witness ==
    /\ NonTerminalPoll
    /\ obs.resp.tag = "Ok"
    /\ obs.tip.tag = "Err"
    /\ pc = "trace_sleep"

\* C15: once the chain answers every poll with Rejected, or Committed deep
\* enough, a trace whose port stays open ends by delivering its response,
\* and the handler returns.
C15_SettledChainEndsTrace ==
    /\ (cur.kind = "TraceTx" /\ chainSettled /\ ~portClosed)
            ~> (portClosed \/ sendRes = "ok")
    /\ (cur.kind = "TraceTx" /\ pc = "ret") ~> (pc = "idle")

\* C16: Sign, SendTx, TraceTx and GetCurrentBlockNumber leave the exclusion
\* set as they found it, so does Fund before fulfill has run, and the
\* configuration, the signing key and the lock script stay what pre_start
\* made them.
C16_Frame ==
    /\ cur.kind \in {"Sign", "SendTx", "TraceTx", "GetCurrentBlockNumber"}
            => funding_exclusion = exclBefore
    /\ (cur.kind = "Fund" /\ result = Nothing) => funding_exclusion = exclBefore
    /\ config = CkbConfig
    /\ secret_key = read_secret_key(CkbConfig)
    /\ funding_source_lock_script = LockScriptOf(read_secret_key(CkbConfig))

\* A Sign has succeeded with a non-empty exclusion set.
C16_Witness ==
    /\ cur.kind = "Sign"
    /\ pc = "ret"
    /\ result = Ok("signed")
    /\ funding_exclusion = Ids

\* C17: while the handler is in the TraceTx arm the message in flight is
\* that trace and no message can be taken; the trace returns only on a
\* terminal status or a closed port; and a poll can always come out
\* non-terminal, so nothing bounds the wait of the messages behind it.
C17_TraceBlocksTheMailbox ==
    /\ pc \in TracePcs => (cur.kind = "TraceTx" /\ ~ENABLED Start)
    /\ (cur.kind = "TraceTx" /\ pc = "ret") => (result.tag = "Some" \/ portClosed)
    /\ (pc = "trace_poll" /\ ~chainSettled) =>
            ENABLED (TracePoll /\ pc' = "trace_sleep")

\* After several polls the trace sleeps again with a message waiting.
C17_Witness ==
    /\ cur.kind = "TraceTx"
    /\ pc = "trace_sleep"
    /\ ~portClosed
    /\ rpcCalls = RpcCap
    /\ Len(mailbox) = MaxQueue

\* C18: a Fund whose port is closed on arrival does not call fulfill and
\* leaves the exclusion set as it was; a Fund whose fulfill succeeded has
\* its inputs in the set whether or not the port was closed meanwhile, a
\* closed port receives nothing, and between two messages every input of a
\* successful fulfill not removed since is in the set.
C18_FundOnClosedPort ==
    /\ (cur.kind = "Fund" /\ closedOnArrival) =>
            /\ pc \in {"fund", "ret"}
            /\ result = Nothing
            /\ funding_exclusion = exclBefore
            /\ sends = 0
    /\ (cur.kind = "Fund" /\ result.tag = "Ok") =>
            /\ funding_exclusion = exclBefore \cup result.val
            /\ portClosed => reply = Nothing
    /\ (pc = "idle" /\ held # {}) => held \subseteq funding_exclusion

\* The port was closed while fulfill ran: inputs registered, nothing delivered.
C18_Witness ==
    /\ cur.kind = "Fund"
    /\ pc = "ret"
    /\ ~closedOnArrival
    /\ portClosed
    /\ result.tag = "Ok"
    /\ funding_exclusion # exclBefore
    /\ reply = Nothing

\* C19: over the whole u64 range the tracer answers Confirmed only if
\* T >= B + C over the integers, and the sum never aborts the handler.
C19_SumNeverWraps ==
    /\ pc # "panicked"
    /\ (CommittedPoll /\ result.tag = "Some") =>
            GeqSumExact(obs.tip.val.uint64, CommitNumber(obs.resp.val.tx_status),
                        cur.confirmations)

\* The poll in flight found a committed status that names no block.
CommittedWithoutBlock ==
    /\ CommittedPoll
    /\ obs.resp.val.tx_status.block_number = NoBlock

\* C20: a committed status without a block number is confirmed exactly when
\* tip >= confirmations (commit number 0), and the Confirmed response then
\* carries no commit block.
C20_MissingBlockCountsAsZero ==
    CommittedWithoutBlock =>
        /\ pc # "panicked"
        /\ (result.tag = "Some") <=> Geq(obs.tip.val.uint64, cur.confirmations)
        /\ result.tag = "Some" => result.val.status.block_number = NoBlock

\* The caller has a Confirmed response that names no commit block.
C20_Witness ==
    /\ CommittedWithoutBlock
    /\ sendRes = "ok"
    /\ reply.status.status = "Committed"
    /\ reply.status.block_number = NoBlock
====
